---- MODULE Spec2Model ----
(***************************************************************************)
(* Model of macro_scope (src/src/lib.rs): a module body is parsed into a   *)
(* vector of shared, interior-mutable items (Rc<RefCell<Item>>), and       *)
(* get_items_by_mark_prefix scans the items, removes from each eligible    *)
(* item the first attribute whose identifier contains the mark, and groups *)
(* the (attribute, item) pairs by the attribute's identifier.              *)
(*                                                                         *)
(* Strings are sequences of characters, so that str::contains is computed  *)
(* as substring containment.  An Rc<RefCell<Item>> is an address into      *)
(* heap; cloning the Rc copies the address, not the item.                  *)
(***************************************************************************)
EXTENDS Integers, Sequences, FiniteSets, TLC

VARIABLES
    pc,            \* "input": nothing parsed yet; "parsed": the MacroScope exists
    input,         \* the ItemMod handed to MacroScope::parse
    heap,          \* address -> Item: the RefCell contents behind every Rc
    items,         \* MacroScope.items: the sequence of Rc addresses
    mark,          \* the mark argument of the last get_items_by_mark_prefix call
    marked_items,  \* the HashMap returned by the last call
    pre_heap,      \* history: heap as it was when the last call started
    heap0,         \* history: heap as MacroScope::parse left it
    calls          \* history: one record [mark, result] per call, in call order

vars == <<pc, input, heap, items, mark, marked_items, pre_heap, heap0, calls>>

----------------------------------------------------------------------------
(* Bounds of the model *)

\* most items in a module body
MaxItems == 2
\* most attributes in a module body, over all its items
MaxAttrs == 2
\* most get_items_by_mark_prefix calls in one behaviour: enough to strip every
\* attribute of an item and call once more
MaxCalls == MaxAttrs + 1

\* Option<T>: None is the empty tuple, Some(x) the one-element tuple
None == << >>
Some(x) == <<x>>
unwrap(o) == o[1]

\* Identifiers, as character sequences
Id_m == <<"m">>
Id_km == <<"k", "m">>
Id_Km == <<"K", "m">>

Idents == {Id_m, Id_km, Id_Km}

\* Attribute paths: syn::Path is an optional leading `::` and its segments
\*   m, km, Km     plain identifiers
\*   km::m         two segments
\*   ::km          one segment behind a leading colon
Paths ==
    {[leading_colon |-> FALSE, segments |-> <<i>>] : i \in Idents}
    \cup {[leading_colon |-> FALSE, segments |-> <<Id_km, Id_m>>],
          [leading_colon |-> TRUE, segments |-> <<Id_km>>]}

\* The marks the calls are made with (non-empty strings)
Marks == {Id_m, Id_km}

\* Kinds of consecutive items of the module bodies tried: a window of this
\* cycle, starting anywhere ("Type" and "Use" stand for every other Item kind)
KindCycle == <<"Struct", "Trait", "Mod", "Enum", "Fn", "Type", "Use">>

Kinds == {KindCycle[i] : i \in 1..Len(KindCycle)}

----------------------------------------------------------------------------
(* Sequence helpers *)

SeqsUpTo(S, n) == UNION {[1..k -> S] : k \in 0..n}

\* fault: Vec::pop in place of Vec::remove(index)
VecRemove_pop(v, index) == SubSeq(v, 1, Len(v) - 1)

\* Vec::remove(index), index counted from 0: the later elements shift down
VecRemove(v, index) == SubSeq(v, 1, index) \o SubSeq(v, index + 2, Len(v))

\* fault: both strings are lowercased before the search
Lower(c) == IF c = "K" THEN "k" ELSE IF c = "M" THEN "m" ELSE c

StrContains_ignore_case(s, pat) ==
    \E off \in 0..(Len(s) - Len(pat)) :
        \A j \in 1..Len(pat) : Lower(s[off + j]) = Lower(pat[j])

\* str::contains(pat): pat occurs in s as a contiguous run of characters
StrContains(s, pat) ==
    \E off \in 0..(Len(s) - Len(pat)) : SubSeq(s, off + 1, off + Len(pat)) = pat

----------------------------------------------------------------------------
(* The inputs: parsed module declarations *)

\* The attributes of a module body of n items: the paths of all its attributes
\* in source order (flat, at most MaxAttrs of them) and, for each item, the
\* position in flat of its last attribute (cut)
Cuts(n, t) ==
    {c \in [1..n -> 0..t] :
        /\ n > 0 => c[n] = t
        /\ \A i \in 1..(n - 1) : c[i] <= c[i + 1]}

AttrLayouts(n) ==
    UNION {{[flat |-> f, cut |-> c] : c \in Cuts(n, Len(f))}
           : f \in (IF n = 0 THEN {<< >>} ELSE SeqsUpTo(Paths, MaxAttrs))}

\* each attribute carries the span of its place in the source text
MkAttrs(lay, i) ==
    LET lo == IF i = 1 THEN 0 ELSE lay.cut[i - 1]
    IN  [j \in 1..(lay.cut[i] - lo) |-> [path |-> lay.flat[lo + j], span |-> <<i, j>>]]

MkItems(n, start, lay) ==
    [i \in 1..n |->
        [kind |-> KindCycle[((start + i - 2) % Len(KindCycle)) + 1],
         attrs |-> MkAttrs(lay, i)]]

\* ItemMod.content: None for `mod m;`, Some(items) for `mod m { ... }`
ModuleContents ==
    {None} \cup
    UNION {{Some(MkItems(n, start, lay)) :
                start \in 1..Len(KindCycle),
                lay \in AttrLayouts(n)}
           : n \in 0..MaxItems}

----------------------------------------------------------------------------
(* src/src/lib.rs *)

\* fault: the last segment's identifier, whatever the number of segments
get_ident_last_segment(path) ==
    IF ~path.leading_colon
    THEN Some(path.segments[Len(path.segments)])
    ELSE None

\* syn::Path::get_ident: the identifier of a path that is a single plain
\* segment without a leading colon, None otherwise
get_ident(path) ==
    IF ~path.leading_colon /\ Len(path.segments) = 1
    THEN Some(path.segments[1])
    ELSE None

\* find_attribute: the loop over attrs.iter().enumerate() from position index
\* (counted from 0); <<index, ident>> of the first hit, None when there is none
RECURSIVE find_attribute_from(_, _, _)
find_attribute_from(attrs, name, index) ==
    IF index >= Len(attrs) THEN None
    ELSE LET ident == get_ident(attrs[index + 1].path)
         IN  IF ident # None /\ StrContains(unwrap(ident), name)
             THEN Some(<<index, unwrap(ident)>>)
             ELSE find_attribute_from(attrs, name, index + 1)

\* fault: the loop keeps the last hit instead of returning at the first
RECURSIVE find_attribute_last_from(_, _, _)
find_attribute_last_from(attrs, name, index) ==
    IF index < 0 THEN None
    ELSE LET ident == get_ident(attrs[index + 1].path)
         IN  IF ident # None /\ StrContains(unwrap(ident), name)
             THEN Some(<<index, unwrap(ident)>>)
             ELSE find_attribute_last_from(attrs, name, index - 1)

find_attribute_last(attrs, name) == find_attribute_last_from(attrs, name, Len(attrs) - 1)

find_attribute(attrs, name) == find_attribute_from(attrs, name, 0)

\* fault: a sixth arm, I::Type
has_attrs_type(item) == item.kind \in {"Struct", "Trait", "Mod", "Enum", "Fn", "Type"}

\* the match on *i: the kinds whose attrs the scan borrows
has_attrs(item) == item.kind \in {"Struct", "Trait", "Mod", "Enum", "Fn"}

\* MarkedItem::new
MarkedItem_new(a, item) == [mark |-> a, item |-> item]

\* fault: Rc::new(RefCell::new(i.clone())): a handle to a fresh copy of the item
rc_clone_deep(rc, h) ==
    LET fresh == Len(h) + 1
    IN  [heap |-> [x \in 1..fresh |-> IF x = fresh THEN h[rc] ELSE h[x]], rc |-> fresh]

\* Rc::clone: another handle to the same cell; the heap gains no cell
rc_clone(rc, h) == [heap |-> h, rc |-> rc]

\* fault: insert(0, marked_item) in place of push
map_push_front(m, key, entry) ==
    IF key \in DOMAIN m
    THEN [m EXCEPT ![key] = <<entry>> \o @]
    ELSE [k \in DOMAIN m \cup {key} |-> IF k = key THEN <<entry>> ELSE m[k]]

\* marked_items.get_mut(&attr_ident): push, or insert a fresh vec
map_push(m, key, entry) ==
    IF key \in DOMAIN m
    THEN [m EXCEPT ![key] = Append(@, entry)]
    ELSE [k \in DOMAIN m \cup {key} |-> IF k = key THEN <<entry>> ELSE m[k]]

\* fault: the bucket is keyed by the mark searched for, not by attr_ident
scan_item_key_mark(st, rc, name) ==
    LET i == st.heap[rc]
    IN  IF ~has_attrs(i) THEN st
        ELSE LET found == find_attribute(i.attrs, name)
             IN  IF found = None THEN st
                 ELSE LET indx   == unwrap(found)[1]
                          a      == i.attrs[indx + 1]
                          h2     == [st.heap EXCEPT ![rc].attrs = VecRemove(@, indx)]
                          shared == rc_clone(rc, h2)
                      IN  [heap |-> shared.heap,
                           map  |-> map_push(st.map, name, MarkedItem_new(a, shared.rc))]

\* fault: attrs.retain(..) in place of attrs.remove(indx): every attribute
\* whose identifier contains the mark leaves the item
scan_item_strip_all(st, rc, name) ==
    LET i == st.heap[rc]
    IN  IF ~has_attrs(i) THEN st
        ELSE LET found == find_attribute(i.attrs, name)
             IN  IF found = None THEN st
                 ELSE LET indx       == unwrap(found)[1]
                          attr_ident == unwrap(found)[2]
                          a          == i.attrs[indx + 1]
                          keep(x)    == LET id == get_ident(x.path)
                                        IN  id = None \/ ~StrContains(unwrap(id), name)
                          h2         == [st.heap EXCEPT ![rc].attrs = SelectSeq(@, keep)]
                          shared     == rc_clone(rc, h2)
                      IN  [heap |-> shared.heap,
                           map  |-> map_push(st.map, attr_ident,
                                             MarkedItem_new(a, shared.rc))]

\* fault: attrs[indx].clone() in place of attrs.remove(indx): the attribute stays
scan_item_keep(st, rc, name) ==
    LET i == st.heap[rc]
    IN  IF ~has_attrs(i) THEN st
        ELSE LET found == find_attribute(i.attrs, name)
             IN  IF found = None THEN st
                 ELSE LET indx       == unwrap(found)[1]
                          attr_ident == unwrap(found)[2]
                          a          == i.attrs[indx + 1]
                          shared     == rc_clone(rc, st.heap)
                      IN  [heap |-> shared.heap,
                           map  |-> map_push(st.map, attr_ident,
                                             MarkedItem_new(a, shared.rc))]

\* one iteration of `for item in items`: st is [heap, map]
scan_item(st, rc, name) ==
    LET i == st.heap[rc]
    IN  IF ~has_attrs(i) THEN st
        ELSE LET found == find_attribute(i.attrs, name)
             IN  IF found = None THEN st
                 ELSE LET indx       == unwrap(found)[1]
                          attr_ident == unwrap(found)[2]
                          a          == i.attrs[indx + 1]
                          h2         == [st.heap EXCEPT ![rc].attrs = VecRemove(@, indx)]
                          shared     == rc_clone(rc, h2)
                      IN  [heap |-> shared.heap,
                           map  |-> map_push(st.map, attr_ident,
                                             MarkedItem_new(a, shared.rc))]

RECURSIVE scan_from(_, _, _, _)
scan_from(st, its, name, k) ==
    IF k > Len(its) THEN st
    ELSE scan_from(scan_item(st, its[k], name), its, name, k + 1)

\* get_items_by_mark_prefix: the heap it leaves and the map it returns
get_items_by_mark_prefix(h, its, name) ==
    scan_from([heap |-> h, map |-> << >>], its, name, 1)

----------------------------------------------------------------------------
(* The state machine *)

EmptyMap == << >>

Init ==
    /\ pc = "input"
    /\ input \in [content : ModuleContents]
    /\ heap = << >>
    /\ items = << >>
    /\ mark = << >>
    /\ marked_items = EmptyMap
    /\ pre_heap = << >>
    /\ heap0 = << >>
    /\ calls = << >>

\* MacroScope::parse: every item of the content goes into a fresh Rc<RefCell<_>>,
\* in order; a module without content gives the default, empty MacroScope
parse_items(content) ==
    IF content = None THEN << >> ELSE unwrap(content)

Parse ==
    /\ pc = "input"
    /\ LET its == parse_items(input.content)
       IN  /\ heap' = its
           /\ heap0' = its
           /\ items' = [i \in 1..Len(its) |-> i]
    /\ pc' = "parsed"
    /\ UNCHANGED <<input, mark, marked_items, pre_heap, calls>>

Extract ==
    /\ pc = "parsed"
    /\ Len(calls) < MaxCalls
    /\ \E name \in Marks :
         LET r == get_items_by_mark_prefix(heap, items, name)
         IN  /\ heap' = r.heap
             /\ marked_items' = r.map
             /\ mark' = name
             /\ pre_heap' = heap
             /\ calls' = Append(calls, [mark |-> name, result |-> r.map])
    /\ UNCHANGED <<pc, input, items, heap0>>

Next == Parse \/ Extract

Spec == Init /\ [][Next]_vars

----------------------------------------------------------------------------
(* Vocabulary of the properties, stated without the operators of the code *)

\* a call of get_items_by_mark_prefix has returned
Called == pc = "parsed" /\ calls # << >>

\* the kinds of node that can be marked: Struct, Trait, Module, Enum, Function
EligibleKinds == {"Struct", "Trait", "Mod", "Enum", "Fn"}

Eligible(item) == item.kind \in EligibleKinds

\* the annotation's path is one plain identifier
HasIdent(a) == ~a.path.leading_colon /\ Len(a.path.segments) = 1

IdentOf(a) == a.path.segments[1]

\* p occurs in s, character for character
Occurs(p, s) ==
    \E i \in 1..Len(s) :
        /\ i + Len(p) - 1 <= Len(s)
        /\ \A j \in 1..Len(p) : s[i + j - 1] = p[j]

MatchesMark(a, p) == HasIdent(a) /\ Occurs(p, IdentOf(a))

\* positions (from 1) of the annotations of a list that match p
MatchIdx(attrs, p) == {i \in 1..Len(attrs) : MatchesMark(attrs[i], p)}

Min(S) == CHOOSE x \in S : \A y \in S : x <= y

\* the k-th smallest element of S
Kth(S, k) == CHOOSE x \in S : Cardinality({y \in S : y < x}) = k - 1

AttrSet(attrs) == {attrs[i] : i \in 1..Len(attrs)}

\* the nodes of the Declaration Container
Nodes == {items[n] : n \in 1..Len(items)}

IndexOf(rc) == CHOOSE n \in 1..Len(items) : items[n] = rc

\* the places <<key, position>> of a Group Map, and the entry at a place
Slots(m) == UNION {{<<k, j>> : j \in 1..Len(m[k])} : k \in DOMAIN m}

EntryAt(m, s) == m[s[1]][s[2]]

EntriesOf(m, rc) == {s \in Slots(m) : EntryAt(m, s).item = rc}

\* after is before with the element at position i (from 1) deleted
DeletedAt(before, after, i) ==
    /\ Len(after) = Len(before) - 1
    /\ \A j \in 1..(i - 1) : after[j] = before[j]
    /\ \A j \in (i + 1)..Len(before) : after[j - 1] = before[j]

\* every call so far was made with mark p
AllCallsWith(p) == \A c \in 1..Len(calls) : calls[c].mark = p

\* no eligible node of h carries an annotation matching p
FullyExtracted(h, p) ==
    \A rc \in DOMAIN h : Eligible(h[rc]) => MatchIdx(h[rc].attrs, p) = {}

----------------------------------------------------------------------------
(* The properties *)

\* C1: one call removes from every eligible node exactly the matching
\* annotation of lowest index; every later matching annotation of the node is
\* still on the node after the call.
C1_FirstMatchRemoved ==
    Called =>
        \A rc \in Nodes :
            LET before == pre_heap[rc].attrs
                after  == heap[rc].attrs
                M      == MatchIdx(before, mark)
            IN  (Eligible(pre_heap[rc]) /\ M # {}) =>
                    /\ AttrSet(after) = AttrSet(before) \ {before[Min(M)]}
                    /\ \A j \in M \ {Min(M)} : \E k \in 1..Len(after) : after[k] = before[j]

\* a call met an eligible node with two matching annotations, the first of
\* them not equal to the mark
C1_Witness ==
    /\ Called
    /\ \E rc \in Nodes :
        LET M == MatchIdx(pre_heap[rc].attrs, mark)
        IN  /\ Eligible(pre_heap[rc])
            /\ Cardinality(M) >= 2
            /\ IdentOf(pre_heap[rc].attrs[Min(M)]) # mark
            /\ heap[rc] # pre_heap[rc]

\* the annotations one call took off the nodes
RemovedNow == UNION {AttrSet(pre_heap[rc].attrs) \ AttrSet(heap[rc].attrs) : rc \in Nodes}

\* C2: every entry sits under the full identifier of its removed annotation;
\* the keys are exactly the identifiers of the annotations removed in the
\* call; no bucket is empty; a mark that matches no node gives the empty map.
C2_KeyedByIdentifier ==
    Called =>
        /\ \A s \in Slots(marked_items) :
               /\ HasIdent(EntryAt(marked_items, s).mark)
               /\ s[1] = IdentOf(EntryAt(marked_items, s).mark)
        /\ DOMAIN marked_items = {IdentOf(a) : a \in RemovedNow}
        /\ \A k \in DOMAIN marked_items : marked_items[k] # << >>
        /\ FullyExtracted(pre_heap, mark) => marked_items = EmptyMap

\* a call returned two buckets, neither keyed by the mark
C2_Witness ==
    /\ Called
    /\ Cardinality(DOMAIN marked_items) = 2
    /\ mark \notin DOMAIN marked_items

\* C3: within a bucket the entries follow the container order of their nodes.
C3_BucketOrder ==
    Called =>
        \A k \in DOMAIN marked_items :
            \A j1, j2 \in 1..Len(marked_items[k]) :
                j1 < j2 => IndexOf(marked_items[k][j1].item) < IndexOf(marked_items[k][j2].item)

\* a call returned a bucket of two entries
C3_Witness ==
    /\ Called
    /\ \E k \in DOMAIN marked_items : Len(marked_items[k]) >= 2

C5_UntouchedNodes ==
    Called =>
        /\ \A rc \in Nodes :
               (~Eligible(pre_heap[rc]) \/ MatchIdx(pre_heap[rc].attrs, mark) = {}) =>
                   /\ heap[rc] = pre_heap[rc]
                   /\ EntriesOf(marked_items, rc) = {}
        /\ (\A rc \in Nodes : ~Eligible(pre_heap[rc])) => marked_items = EmptyMap

\* a call met a node of an ineligible kind carrying a matching annotation
C5_Witness ==
    /\ Called
    /\ \E rc \in Nodes :
        /\ ~Eligible(pre_heap[rc])
        /\ MatchIdx(pre_heap[rc].attrs, mark) # {}

MultiSegment(a) == Len(a.path.segments) > 1

\* C6: an annotation whose path has more than one segment is never removed
\* and never put in an entry, even when a segment contains the mark; it does
\* not keep a later matching annotation of the node from being found.
C6_MultiSegmentNeverMatches ==
    Called =>
        \A rc \in Nodes :
            LET before == pre_heap[rc].attrs
            IN  /\ \A i \in 1..Len(before) :
                       MultiSegment(before[i]) =>
                           /\ before[i] \in AttrSet(heap[rc].attrs)
                           /\ \A s \in Slots(marked_items) :
                                  EntryAt(marked_items, s).mark # before[i]
                /\ (/\ Eligible(pre_heap[rc])
                    /\ \E i, j \in 1..Len(before) :
                           i < j /\ MultiSegment(before[i]) /\ MatchesMark(before[j], mark))
                   => \E s \in EntriesOf(marked_items, rc) :
                          /\ ~MultiSegment(EntryAt(marked_items, s).mark)
                          /\ MatchesMark(EntryAt(marked_items, s).mark, mark)

\* a call met an eligible node whose first annotation has two segments, each
\* containing the mark, and whose second annotation matches: the second one
\* was taken, the first one stays
C6_Witness ==
    /\ Called
    /\ \E rc \in Nodes :
        LET before == pre_heap[rc].attrs
        IN  /\ Eligible(pre_heap[rc])
            /\ Len(before) = 2
            /\ MultiSegment(before[1])
            /\ \A n \in 1..Len(before[1].path.segments) : Occurs(mark, before[1].path.segments[n])
            /\ MatchesMark(before[2], mark)
            /\ heap[rc].attrs = <<before[1]>>
            /\ \E s \in EntriesOf(marked_items, rc) : EntryAt(marked_items, s).mark = before[2]

\* C7: when every call so far used the same mark, the k-th call takes from
\* an eligible node the k-th matching annotation of the node's original list
\* and groups it under its identifier (no entry for the node once its
\* matches are used up); no call takes more than one annotation from a node.
C7_OnePerCallInListOrder ==
    Called =>
        /\ AllCallsWith(mark) =>
               \A rc \in Nodes :
                   Eligible(heap0[rc]) =>
                       LET M0 == MatchIdx(heap0[rc].attrs, mark)
                           k  == Len(calls)
                           E  == EntriesOf(marked_items, rc)
                       IN  IF Cardinality(M0) >= k
                           THEN /\ Cardinality(E) = 1
                                /\ \A s \in E :
                                       /\ EntryAt(marked_items, s).mark = heap0[rc].attrs[Kth(M0, k)]
                                       /\ s[1] = IdentOf(heap0[rc].attrs[Kth(M0, k)])
                           ELSE E = {}
        /\ \A rc \in Nodes : Len(heap[rc].attrs) >= Len(pre_heap[rc].attrs) - 1

\* the second of two calls with one mark took the second matching annotation
\* of a node whose two matching annotations have different identifiers
C7_Witness ==
    /\ Called
    /\ Len(calls) = 2
    /\ AllCallsWith(mark)
    /\ \E rc \in Nodes :
        LET M0 == MatchIdx(heap0[rc].attrs, mark)
        IN  /\ Eligible(heap0[rc])
            /\ Cardinality(M0) = 2
            /\ IdentOf(heap0[rc].attrs[Kth(M0, 1)]) # IdentOf(heap0[rc].attrs[Kth(M0, 2)])
            /\ \E s \in EntriesOf(marked_items, rc) :
                   EntryAt(marked_items, s).mark = heap0[rc].attrs[Kth(M0, 2)]

\* the largest number of annotations matching p on one eligible node of h
MaxMatches(h, p) ==
    LET counts == {Cardinality(MatchIdx(h[rc].attrs, p)) : rc \in {x \in DOMAIN h : Eligible(h[x])}}
    IN  IF counts = {} THEN 0 ELSE CHOOSE c \in counts : \A d \in counts : d <= c

\* C8: a call on a container that is fully extracted for its mark returns the
\* empty map and changes no node; and calls repeated with one mark leave the
\* container fully extracted for it after at most as many calls as the largest
\* number of matching annotations on one node.
C8_IdempotentInAbsence ==
    pc = "parsed" =>
        /\ (Called /\ FullyExtracted(pre_heap, mark)) =>
               (marked_items = EmptyMap /\ heap = pre_heap)
        /\ \A p \in Marks :
               (AllCallsWith(p) /\ Len(calls) >= MaxMatches(heap0, p)) =>
                   FullyExtracted(heap, p)

\* three calls with one mark on a container whose fullest node had two
\* matching annotations: two calls that took something, then one that
\* returned the empty map and changed nothing
C8_Witness ==
    /\ Called
    /\ Len(calls) = 3
    /\ AllCallsWith(mark)
    /\ MaxMatches(heap0, mark) = 2
    /\ calls[1].result # EmptyMap
    /\ calls[2].result # EmptyMap
    /\ calls[3].result = EmptyMap
    /\ heap = pre_heap

\* C9: the node of every entry of the returned map is the node the container
\* holds, and read through either it no longer carries the entry's annotation.
C9_SharedNodeStripped ==
    Called =>
        \A s \in Slots(marked_items) :
            LET e == EntryAt(marked_items, s)
            IN  /\ e.item \in Nodes
                /\ e.mark \in AttrSet(pre_heap[e.item].attrs)
                /\ e.mark \notin AttrSet(heap[items[IndexOf(e.item)]].attrs)
                /\ e.mark \notin AttrSet(heap[e.item].attrs)

\* a call returned an entry whose node still carries an annotation of the
\* same text as the one taken
C9_Witness ==
    /\ Called
    /\ \E s \in Slots(marked_items) :
        LET e == EntryAt(marked_items, s)
        IN  /\ e.item \in Nodes
            /\ \E k \in 1..Len(heap[e.item].attrs) :
                   heap[e.item].attrs[k].path = e.mark.path

\* every entry returned by a call, as <<call, slot>>
AllExtracted ==
    UNION {{<<c, s>> : s \in Slots(calls[c].result)} : c \in 1..Len(calls)}

ExtractedEntry(x) == EntryAt(calls[x[1]].result, x[2])

\* C10: every entry of a returned map references a node of the container and
\* holds an annotation that node had; no two entries of the map share a
\* (node, annotation) pair; a node has at most one entry in the map; over all
\* calls no annotation is extracted twice.
C10_EntriesDistinct ==
    Called =>
        /\ \A s \in Slots(marked_items) :
               /\ EntryAt(marked_items, s).item \in Nodes
               /\ EntryAt(marked_items, s).mark \in AttrSet(heap0[EntryAt(marked_items, s).item].attrs)
        /\ \A s1, s2 \in Slots(marked_items) :
               (/\ EntryAt(marked_items, s1).item = EntryAt(marked_items, s2).item
                /\ EntryAt(marked_items, s1).mark = EntryAt(marked_items, s2).mark) => s1 = s2
        /\ \A rc \in Nodes : Cardinality(EntriesOf(marked_items, rc)) <= 1
        /\ \A x, y \in AllExtracted :
               ExtractedEntry(x).mark.span = ExtractedEntry(y).mark.span => x = y

\* two calls in a row took an annotation from the same node
C10_Witness ==
    /\ Called
    /\ Len(calls) >= 2
    /\ \E rc \in Nodes :
        /\ EntriesOf(calls[Len(calls) - 1].result, rc) # {}
        /\ EntriesOf(marked_items, rc) # {}

====
